---- MODULE Spec2Model ----
(***************************************************************************)
(* Model of the DMI Weather EDR client                                     *)
(* (custom_components/dmi_weather/dmi_api.py, class DMIWeatherAPI).        *)
(*                                                                         *)
(* Numbers.  Every physical quantity is a fixed-point integer counted in   *)
(* hundredths of its unit: 273.15 is 27315, 200 is 20000, 0.1 is 10.       *)
(* Raw pressures are whole pascals, so the division by 100 is exact.       *)
(* Times on the event-loop clock are whole seconds.                        *)
(*                                                                         *)
(* Indices.  Python sequences start at 0, TLA+ sequences at 1: index i of  *)
(* the model is index i-1 of the code.                                     *)
(*                                                                         *)
(* Scheduling.  The client runs on one asyncio event loop: the code        *)
(* between two awaits that suspend runs without interleaving, so each      *)
(* action is the code from one suspension point to the next.               *)
(* asyncio.sleep(d) returns once at least d seconds have passed.           *)
(*                                                                         *)
(* Entity.  update() is called by DMIWeatherEDREntity.async_update         *)
(* (weather.py), which sets _attr_available after it; the entity reads the *)
(* client's three snapshot attributes directly.                            *)
(***************************************************************************)
EXTENDS Integers, Sequences, FiniteSets, TLC

VARIABLES
    clock,                  \* asyncio.get_event_loop().time()
    _last_request_time,     \* DMIWeatherAPI._last_request_time
    current_data,           \* DMIWeatherAPI.current_data
    hourly_forecast_data,   \* DMIWeatherAPI.hourly_forecast_data
    forecast_data,          \* DMIWeatherAPI.forecast_data
    pc,                     \* per update() coroutine: where it is suspended
    wake,                   \* per coroutine: when its asyncio.sleep may return
    collection_id,          \* per coroutine: local collection_id of update()
    attempts,               \* per coroutine: resolve+query attempts of this call
    result,                 \* per coroutine: how its last update() ended
    requests,               \* log of outbound HTTP requests, oldest first
    before,                 \* per coroutine: the snapshot when update() began
    derived,                \* per snapshot field: the response it was set from
    decoded,                \* the payload of the last _process_edr_data call
    error,                  \* per coroutine: the exception update() raised
    call,                   \* per coroutine: the ordinal of its update() call
    started,                \* number of update() calls begun
    resolved,               \* per coroutine: what its collections response held
    _attr_available,        \* DMIWeatherEDREntity._attr_available
    probe                   \* input and output of the pure-function checks

vars == <<clock, _last_request_time, current_data, hourly_forecast_data,
          forecast_data, pc, wake, collection_id, attempts, result, requests,
          before, derived, decoded, error, call, started, resolved,
          _attr_available, probe>>

-----------------------------------------------------------------------------
(* Bounds of the model *)

MaxClock == 13
MaxUpdates == 2
MaxCollections == 3
MaxAxis == 3
MaxOverlapClock == 7

-----------------------------------------------------------------------------
(* JSON values of a ranges array: null, a number, or a non-numeric string *)

None == [k |-> "none", v |-> 0]
Num(x) == [k |-> "num", v |-> x]
Str == [k |-> "str", v |-> 0]

(* The float("-inf") and float("inf") sentinels of _create_daily_forecast *)
NegInf == [k |-> "-inf", v |-> 0]
PosInf == [k |-> "inf", v |-> 0]

(* The empty dict {} *)
EmptyDict == [empty |-> TRUE]

PreferredCollection == "harmonie_dini_eps_means"

(* Program constants, in seconds and in attempts *)
_rate_limit_delay == 2
RateLimitCooldown == 5
_max_retries == 3
_max_retries_slow == 2

Coroutines == {1, 2}

ParameterCodes ==
    {"temperature-2m", "pressure-sealevel", "relative-humidity-2m",
     "wind-speed-10m", "gust-wind-speed-10m", "total-precipitation",
     "fraction-of-cloud-cover", "dew-point-temperature-2m"}

-----------------------------------------------------------------------------
(* _extract_parameter_value: [exc, val]; exc is "" when a value is returned *)

Returned(value) == [exc |-> "", val |-> value]
Raised(kind) == [exc |-> kind, val |-> None]

(* Variant: the cloud-cover test is value < 1 *)
NormalizeWrongCloudBound(parameter, raw) ==
    LET v1 == IF parameter = "temperature-2m" /\ raw > 20000
              THEN raw - 27315 ELSE raw
        v2 == IF parameter = "pressure-sealevel" /\ v1 > 1000000
              THEN v1 \div 100 ELSE v1
        v3 == IF parameter = "fraction-of-cloud-cover" /\ v2 < 100
              THEN v2 * 100 ELSE v2
        v4 == IF parameter = "dew-point-temperature-2m" /\ v3 > 20000
              THEN v3 - 27315 ELSE v3
    IN  v4

(* Variant: lines 244-246 are missing, a cloud fraction stays a fraction *)
NormalizeNoCloudScale(parameter, raw) ==
    LET v1 == IF parameter = "temperature-2m" /\ raw > 20000
              THEN raw - 27315 ELSE raw
        v2 == IF parameter = "pressure-sealevel" /\ v1 > 1000000
              THEN v1 \div 100 ELSE v1
        v4 == IF parameter = "dew-point-temperature-2m" /\ v2 > 20000
              THEN v2 - 27315 ELSE v2
    IN  v4

(* Lines 236-250: the unit conversions, one test after the other *)
Normalize(parameter, raw) ==
    LET v1 == IF parameter = "temperature-2m" /\ raw > 20000
              THEN raw - 27315 ELSE raw
        v2 == IF parameter = "pressure-sealevel" /\ v1 > 1000000
              THEN v1 \div 100 ELSE v1
        v3 == IF parameter = "fraction-of-cloud-cover" /\ v2 <= 100
              THEN v2 * 100 ELSE v2
        v4 == IF parameter = "dew-point-temperature-2m" /\ v3 > 20000
              THEN v3 - 27315 ELSE v3
    IN  v4

(* Variant: line 229 is missing, values[time_index] raises IndexError *)
ExtractNoLengthCheck(ranges, parameter, time_index) ==
    LET param_data == ranges[parameter] IN
    IF ~param_data.present THEN Returned(None)
    ELSE IF ~param_data.has_values THEN Returned(None)
    ELSE IF time_index > Len(param_data.values) THEN Raised("IndexError")
    ELSE LET value == param_data.values[time_index] IN
         IF value.k = "none" THEN Returned(None)
         ELSE IF value.k = "str"
              THEN IF parameter \in {"temperature-2m", "pressure-sealevel",
                                     "fraction-of-cloud-cover",
                                     "dew-point-temperature-2m"}
                   THEN Raised("TypeError")
                   ELSE Raised("ValueError")
         ELSE Returned(Num(Normalize(parameter, value.v)))

_extract_parameter_value(ranges, parameter, time_index) ==
    LET param_data == ranges[parameter] IN
    IF ~param_data.present THEN Returned(None)
    ELSE IF ~param_data.has_values THEN Returned(None)
    ELSE IF time_index > Len(param_data.values) THEN Returned(None)
    ELSE LET value == param_data.values[time_index] IN
         IF value.k = "none" THEN Returned(None)
         ELSE IF value.k = "str"
              THEN IF parameter \in {"temperature-2m", "pressure-sealevel",
                                     "fraction-of-cloud-cover",
                                     "dew-point-temperature-2m"}
                   THEN Raised("TypeError")      \* str > int
                   ELSE Raised("ValueError")     \* float("n/a")
         ELSE Returned(Num(Normalize(parameter, value.v)))

-----------------------------------------------------------------------------
(* _estimate_weather_code: 3 rain, 2 cloudy, 1 partly cloudy, 0 clear *)

Truthy(value) == value.k = "num" /\ value.v # 0

(* Variant: the three comparisons are >= *)
EstimateInclusiveBounds(precipitation, cloud_cover) ==
    IF Truthy(precipitation) /\ precipitation.v >= 10 THEN 3
    ELSE IF Truthy(cloud_cover) /\ cloud_cover.v >= 8000 THEN 2
    ELSE IF Truthy(cloud_cover) /\ cloud_cover.v >= 3000 THEN 1
    ELSE 0

_estimate_weather_code(precipitation, cloud_cover) ==
    IF Truthy(precipitation) /\ precipitation.v > 10 THEN 3
    ELSE IF Truthy(cloud_cover) /\ cloud_cover.v > 8000 THEN 2
    ELSE IF Truthy(cloud_cover) /\ cloud_cover.v > 3000 THEN 1
    ELSE 0

-----------------------------------------------------------------------------
(* Entries of the time axis domain.axes.t.values.                          *)
(*   "iso"    a string datetime.fromisoformat parses, here day and hour    *)
(*   "badstr" a string it rejects with ValueError                          *)
(*   "nonstr" null or a number: .replace raises AttributeError             *)

Iso(d, h) == [kind |-> "iso", day |-> d, hour |-> h]
BadStr == [kind |-> "badstr", day |-> 0, hour |-> 0]
NonStr == [kind |-> "nonstr", day |-> 0, hour |-> 0]

(* datetime.fromisoformat(time_str.replace("Z", "+00:00")) *)
ParseTime(time_str) ==
    IF time_str.kind = "nonstr" THEN [exc |-> "AttributeError", day |-> 0, hour |-> 0]
    ELSE IF time_str.kind = "badstr" THEN [exc |-> "ValueError", day |-> 0, hour |-> 0]
    ELSE [exc |-> "", day |-> time_str.day, hour |-> time_str.hour]

(* axes.get("t", {}).get("values", []) *)
TimeValues(data) == IF data.has_t THEN data.t_values ELSE <<>>

(* Lines 186-193: the key of the record that holds each parameter *)
FieldOf(parameter) ==
    CASE parameter = "temperature-2m" -> "temperature"
      [] parameter = "pressure-sealevel" -> "pressure"
      [] parameter = "relative-humidity-2m" -> "humidity"
      [] parameter = "wind-speed-10m" -> "wind_speed"
      [] parameter = "gust-wind-speed-10m" -> "wind_gust"
      [] parameter = "total-precipitation" -> "precipitation"
      [] parameter = "fraction-of-cloud-cover" -> "cloud_cover"
      [] parameter = "dew-point-temperature-2m" -> "dew_point"

(* The exception of the first of the extractions that raised, "" if none *)
FirstExc(all) ==
    IF \A n \in 1..Len(all) : all[n].exc = "" THEN ""
    ELSE all[CHOOSE n \in 1..Len(all) :
                 all[n].exc # "" /\ \A m \in 1..(n - 1) : all[m].exc = ""].exc

(* Lines 184-201: the dict of one time step from the eight extractions,    *)
(* each an [exc, val]: [exc, rec]                                          *)
WeatherRecord(time_obj, temperature, pressure, humidity, wind_speed, wind_gust, precipitation, cloud_cover, dew_point) ==
    [exc |-> FirstExc(<<temperature, pressure, humidity, wind_speed, wind_gust,
                        precipitation, cloud_cover, dew_point>>),
     rec |-> [time |-> [day |-> time_obj.day, hour |-> time_obj.hour],
              temperature |-> temperature.val,
              pressure |-> pressure.val,
              humidity |-> humidity.val,
              wind_speed |-> wind_speed.val,
              wind_gust |-> wind_gust.val,
              precipitation |-> precipitation.val,
              cloud_cover |-> cloud_cover.val,
              dew_point |-> dew_point.val,
              weather_code |-> _estimate_weather_code(precipitation.val,
                                                      cloud_cover.val)]]

WeatherData(ranges, time_obj, i) ==
    WeatherRecord(time_obj,
                  _extract_parameter_value(ranges, "temperature-2m", i),
                  _extract_parameter_value(ranges, "pressure-sealevel", i),
                  _extract_parameter_value(ranges, "relative-humidity-2m", i),
                  _extract_parameter_value(ranges, "wind-speed-10m", i),
                  _extract_parameter_value(ranges, "gust-wind-speed-10m", i),
                  _extract_parameter_value(ranges, "total-precipitation", i),
                  _extract_parameter_value(ranges, "fraction-of-cloud-cover", i),
                  _extract_parameter_value(ranges, "dew-point-temperature-2m", i))

(* Lines 179-201, the try block at index i once the time is parsed: [exc, rec] *)
TryBlock(data, i, time_obj) ==
    IF time_obj.exc # ""
    THEN [exc |-> time_obj.exc, rec |-> EmptyDict]
    ELSE WeatherData(data.ranges, time_obj, i)

TimeStep(data, i) == TryBlock(data, i, ParseTime(TimeValues(data)[i]))

RECURSIVE HourlyLoop(_, _, _, _)

(* except (ValueError, TypeError), line 209 *)
Caught == {"ValueError", "TypeError"}

(* Variant: a ValueError or TypeError ends the loop (break for continue) *)
AfterStepBreaks(data, i, hourly_data, cur, step) ==
    IF step.exc # ""
    THEN [exc |-> IF step.exc \in Caught THEN "" ELSE step.exc,
          hourly_data |-> hourly_data, current_data |-> cur]
    ELSE HourlyLoop(data, i + 1, Append(hourly_data, step.rec),
                    IF i = 1 THEN step.rec ELSE cur)

(* Lines 203-211: what follows the try block at index i, step being its    *)
(* outcome.  ValueError and TypeError skip the index, any other exception  *)
(* leaves the loop and the method.                                         *)
AfterStep(data, i, hourly_data, cur, step) ==
    IF step.exc \notin Caught \cup {""}
    THEN [exc |-> step.exc, hourly_data |-> hourly_data, current_data |-> cur]
    ELSE IF step.exc # ""
    THEN HourlyLoop(data, i + 1, hourly_data, cur)
    ELSE HourlyLoop(data, i + 1, Append(hourly_data, step.rec),
                    IF i = 1 THEN step.rec ELSE cur)

(* The for loop of lines 178-211 from index i on: [exc, hourly_data,       *)
(* current_data]                                                           *)
HourlyLoop(data, i, hourly_data, cur) ==
    IF i > Len(TimeValues(data))
    THEN [exc |-> "", hourly_data |-> hourly_data, current_data |-> cur]
    ELSE AfterStep(data, i, hourly_data, cur, TimeStep(data, i))

-----------------------------------------------------------------------------
(* _create_daily_forecast *)

PyMax(a, b) == IF a.k = "-inf" THEN b ELSE IF b.v > a.v THEN b ELSE a
PyMin(a, b) == IF a.k = "inf" THEN b ELSE IF b.v < a.v THEN b ELSE a

NewDay(time_obj) ==
    [time |-> time_obj, temperature_max |-> NegInf, temperature_min |-> PosInf,
     precipitation |-> Num(0), wind_speed |-> Num(0), wind_direction |-> Num(0),
     weather_code |-> None]

(* Variant: line 302 assigns where it should add *)
UpdateDayAssignsPrecip(daily_data, hour_data) ==
    LET temp == hour_data.temperature
        precip == hour_data.precipitation
        wind_speed == hour_data.wind_speed
    IN  [daily_data EXCEPT
            !.temperature_max = IF temp.k # "none" THEN PyMax(@, temp) ELSE @,
            !.temperature_min = IF temp.k # "none" THEN PyMin(@, temp) ELSE @,
            !.precipitation = IF precip.k # "none" THEN precip ELSE @,
            !.wind_speed = IF wind_speed.k # "none" THEN wind_speed ELSE @,
            !.weather_code = Num(hour_data.weather_code)]

(* Variant: lines 304-306 assign without the test for None *)
UpdateDayNullWind(daily_data, hour_data) ==
    LET temp == hour_data.temperature
        precip == hour_data.precipitation
        wind_speed == hour_data.wind_speed
    IN  [daily_data EXCEPT
            !.temperature_max = IF temp.k # "none" THEN PyMax(@, temp) ELSE @,
            !.temperature_min = IF temp.k # "none" THEN PyMin(@, temp) ELSE @,
            !.precipitation = IF precip.k # "none" THEN Num(@.v + precip.v) ELSE @,
            !.wind_speed = wind_speed,
            !.weather_code = Num(hour_data.weather_code)]

(* "Update daily data": one hour folded into the day's dict *)
UpdateDay(daily_data, hour_data) ==
    LET temp == hour_data.temperature
        precip == hour_data.precipitation
        wind_speed == hour_data.wind_speed
    IN  [daily_data EXCEPT
            !.temperature_max = IF temp.k # "none" THEN PyMax(@, temp) ELSE @,
            !.temperature_min = IF temp.k # "none" THEN PyMin(@, temp) ELSE @,
            !.precipitation = IF precip.k # "none" THEN Num(@.v + precip.v) ELSE @,
            !.wind_speed = IF wind_speed.k # "none" THEN wind_speed ELSE @,
            \* hour_data has no "wind_direction" key: .get gives None
            !.weather_code = Num(hour_data.weather_code)]

(* Variant: the loop without "Add last day" (lines 317-318) *)
RECURSIVE DailyLoopNoLastDay(_, _, _, _, _)
DailyLoopNoLastDay(hourly_data, i, daily_forecast, current_date, daily_data) ==
    IF i > Len(hourly_data)
    THEN daily_forecast
    ELSE LET hour_data == hourly_data[i]
             date_key == hour_data.time.day
         IN  IF date_key # current_date
             THEN DailyLoopNoLastDay(hourly_data, i + 1,
                                     IF current_date # 0
                                     THEN Append(daily_forecast, daily_data)
                                     ELSE daily_forecast,
                                     date_key,
                                     UpdateDay(NewDay(hour_data.time), hour_data))
             ELSE DailyLoopNoLastDay(hourly_data, i + 1, daily_forecast,
                                     current_date,
                                     UpdateDay(daily_data, hour_data))

(* The grouping loop from index i on.  current_date 0 is None. *)
RECURSIVE DailyLoop(_, _, _, _, _)
DailyLoop(hourly_data, i, daily_forecast, current_date, daily_data) ==
    IF i > Len(hourly_data)
    THEN IF current_date # 0 THEN Append(daily_forecast, daily_data)
         ELSE daily_forecast
    ELSE LET hour_data == hourly_data[i]
             date_key == hour_data.time.day
         IN  IF date_key # current_date
             THEN DailyLoop(hourly_data, i + 1,
                            IF current_date # 0
                            THEN Append(daily_forecast, daily_data)
                            ELSE daily_forecast,
                            date_key,
                            UpdateDay(NewDay(hour_data.time), hour_data))
             ELSE DailyLoop(hourly_data, i + 1, daily_forecast, current_date,
                            UpdateDay(daily_data, hour_data))

(* Variant: only temperature_max is cleaned *)
CleanUpMaxOnly(day_data) ==
    [day_data EXCEPT !.temperature_max = IF @ = NegInf THEN None ELSE @]

(* "Clean up temperature values" *)
CleanUp(day_data) ==
    [day_data EXCEPT
        !.temperature_max = IF @ = NegInf THEN None ELSE @,
        !.temperature_min = IF @ = PosInf THEN None ELSE @]

_create_daily_forecast(hourly_data) ==
    LET daily_forecast == DailyLoop(hourly_data, 1, <<>>, 0, EmptyDict)
    IN  [n \in 1..Len(daily_forecast) |-> CleanUp(daily_forecast[n])]

-----------------------------------------------------------------------------
(* _process_edr_data on the snapshot snap = [current_data,                 *)
(* hourly_forecast_data, forecast_data]: [exc, wrote, snap].  wrote is the *)
(* set of snapshot attributes the call assigned (lines 213, 214 and 327).  *)

Snapshot(cur, hourly, daily) ==
    [current_data |-> cur, hourly_forecast_data |-> hourly, forecast_data |-> daily]

SnapshotFields == {"current_data", "hourly_forecast_data", "forecast_data"}

(* Variant: the attributes are bound to the lists before the loop fills     *)
(* them, so an exception in the loop leaves the records decoded so far     *)
StoreStoresInLoop(loop, snap) ==
    IF loop.exc # ""
    THEN [exc |-> loop.exc,
          wrote |-> {"current_data", "hourly_forecast_data"},
          snap |-> Snapshot(loop.current_data, loop.hourly_data,
                            snap.forecast_data)]
    ELSE [exc |-> "", wrote |-> SnapshotFields,
          snap |-> Snapshot(loop.current_data, loop.hourly_data,
                            _create_daily_forecast(loop.hourly_data))]

(* Variant: line 217 is missing, forecast_data is never rebuilt *)
StoreSkipsDaily(loop, snap) ==
    IF loop.exc # ""
    THEN [exc |-> loop.exc, wrote |-> {}, snap |-> snap]
    ELSE [exc |-> "", wrote |-> {"current_data", "hourly_forecast_data"},
          snap |-> Snapshot(loop.current_data, loop.hourly_data,
                            snap.forecast_data)]

(* Variant: line 217 aggregates self.hourly_forecast_data as it was before *)
(* line 214                                                                *)
StoreDailyOfPrevious(loop, snap) ==
    IF loop.exc # ""
    THEN [exc |-> loop.exc, wrote |-> {}, snap |-> snap]
    ELSE [exc |-> "", wrote |-> SnapshotFields,
          snap |-> Snapshot(loop.current_data, loop.hourly_data,
                            _create_daily_forecast(snap.hourly_forecast_data))]

(* Lines 213-217 after the loop ended as loop: nothing is stored when it   *)
(* was left by an exception                                                *)
Store(loop, snap) ==
    IF loop.exc # ""
    THEN [exc |-> loop.exc, wrote |-> {}, snap |-> snap]
    ELSE [exc |-> "", wrote |-> SnapshotFields,
          snap |-> Snapshot(loop.current_data, loop.hourly_data,
                            _create_daily_forecast(loop.hourly_data))]

_process_edr_data(data, snap) ==
    IF ~data.has_ranges
    THEN [exc |-> "", wrote |-> {}, snap |-> snap]
    ELSE IF TimeValues(data) = <<>>
    THEN [exc |-> "", wrote |-> {}, snap |-> snap]
    ELSE Store(HourlyLoop(data, 1, <<>>, EmptyDict), snap)

-----------------------------------------------------------------------------
(* The two endpoints' answers *)

CollectionIds == {PreferredCollection, "dini_sf", "wam_dw"}

RECURSIVE SeqsUpTo(_, _)
SeqsUpTo(S, n) ==
    IF n = 0 THEN {<<>>}
    ELSE LET shorter == SeqsUpTo(S, n - 1)
         IN  shorter \cup {Append(q, x) : q \in {r \in shorter : Len(r) = n - 1}, x \in S}

(* Bodies of a 200 collections response: has_key is "collections" in data, *)
(* ids the "id" of each element of data["collections"], in server order    *)
CollectionBodies ==
    {[has_key |-> TRUE, ids |-> q] : q \in SeqsUpTo(CollectionIds, MaxCollections)}
    \cup {[has_key |-> FALSE, ids |-> <<>>]}

(* Variant: a key assigned again moves to the end of the dict *)
RECURSIVE DictKeysReinserts(_, _)
DictKeysReinserts(ids, keys) ==
    IF ids = <<>> THEN keys
    ELSE DictKeysReinserts(Tail(ids),
                           Append(SelectSeq(keys, LAMBDA k : k # Head(ids)),
                                  Head(ids)))

(* The dict built by lines 93-97, as its keys in iteration order: a key    *)
(* already present keeps its place when it is assigned again               *)
RECURSIVE DictKeys(_, _)
DictKeys(ids, keys) ==
    IF ids = <<>> THEN keys
    ELSE DictKeys(Tail(ids),
                  IF \E n \in 1..Len(keys) : keys[n] = Head(ids)
                  THEN keys ELSE Append(keys, Head(ids)))

Collections(body) == IF body.has_key THEN DictKeys(body.ids, <<>>) ELSE <<>>

(* Lines 63-66 of update() *)
SelectCollection(collections) ==
    IF \E n \in 1..Len(collections) : collections[n] = PreferredCollection
    THEN PreferredCollection
    ELSE collections[1]

Absent == [present |-> FALSE, has_values |-> FALSE, values |-> <<>>]
Values(q) == [present |-> TRUE, has_values |-> TRUE, values |-> q]
NoRanges == [p \in ParameterCodes |-> Absent]

Ranges(temperature, precipitation, cloud_cover) ==
    [NoRanges EXCEPT !["temperature-2m"] = Values(temperature),
                     !["total-precipitation"] = Values(precipitation),
                     !["fraction-of-cloud-cover"] = Values(cloud_cover)]

Data(t_values, ranges) ==
    [has_ranges |-> TRUE, has_t |-> TRUE, t_values |-> t_values, ranges |-> ranges]

(* Bodies of a 200 position response the server may send *)
Payloads ==
    { \* three hours over two days, Kelvin and Celsius, fraction and percent
      Data(<<Iso(1, 22), Iso(1, 23), Iso(2, 0)>>,
           Ranges(<<Num(28000), Num(1500), None>>,
                  <<Num(20), Num(0), Num(50)>>,
                  <<Num(75), Num(9000), Num(10)>>)),
      \* one hour of another day
      Data(<<Iso(3, 12)>>, Ranges(<<Num(-200)>>, <<None>>, <<Num(100)>>)),
      \* no ranges object, no time axis, empty time axis
      [has_ranges |-> FALSE, has_t |-> TRUE, t_values |-> <<Iso(1, 0)>>,
       ranges |-> NoRanges],
      [has_ranges |-> TRUE, has_t |-> FALSE, t_values |-> <<>>, ranges |-> NoRanges],
      Data(<<>>, NoRanges),
      \* every index malformed
      Data(<<BadStr, BadStr>>, Ranges(<<Num(500), Num(600)>>, <<>>, <<>>)),
      Data(<<Iso(1, 0)>>, Ranges(<<Str>>, <<>>, <<>>)),
      \* index 0 malformed, the next one well formed
      Data(<<BadStr, Iso(1, 1)>>, Ranges(<<Num(500), Num(600)>>, <<>>, <<>>)),
      \* a time entry that is not a string
      Data(<<Iso(1, 0), NonStr>>, Ranges(<<Num(500), Num(600)>>, <<>>, <<>>)) }

-----------------------------------------------------------------------------
(* The update() coroutine *)

snapshot == Snapshot(current_data, hourly_forecast_data, forecast_data)

snapvars == <<current_data, hourly_forecast_data, forecast_data, derived, decoded>>

(* An exception leaves update() through the except clause of lines 71-73, *)
(* and async_update catches it (weather.py, lines 87-89)                   *)
Raise(t, kind) ==
    /\ pc' = [pc EXCEPT ![t] = "idle"]
    /\ result' = [result EXCEPT ![t] = "raised"]
    /\ error' = [error EXCEPT ![t] = kind]
    /\ _attr_available' = FALSE

(* update() returns, and async_update goes on to line 86 of weather.py *)
Return(t) ==
    /\ pc' = [pc EXCEPT ![t] = "idle"]
    /\ result' = [result EXCEPT ![t] = "returned"]
    /\ error' = error
    /\ _attr_available' = TRUE

(* Variant: the sleep is one second short *)
SleepTooShort(t, last, at) ==
    /\ pc' = [pc EXCEPT ![t] = at]
    /\ wake' = [wake EXCEPT ![t] = clock + (_rate_limit_delay - (clock - last)) - 1]
    /\ _last_request_time' = last
    /\ requests' = requests

(* _rate_limit lines 44-48 when it has to sleep *)
Sleep(t, last, at) ==
    /\ pc' = [pc EXCEPT ![t] = at]
    /\ wake' = [wake EXCEPT ![t] = clock + (_rate_limit_delay - (clock - last))]
    /\ _last_request_time' = last
    /\ requests' = requests

(* _rate_limit line 49, then lines 78-84: the collections GET goes out *)
SendCollections(t, n) ==
    /\ _last_request_time' = clock
    /\ requests' = Append(requests, [time |-> clock, endpoint |-> "collections",
                                     collection_id |-> "", call |-> n,
                                     status |-> "sent", answered |-> 0])
    /\ pc' = [pc EXCEPT ![t] = "get_collections"]
    /\ wake' = wake

(* _get_collections from line 77 on, in update() call number n,           *)
(* _last_request_time being last                                           *)
GetCollections(t, n, last) ==
    IF clock - last < _rate_limit_delay
    THEN Sleep(t, last, "rate_limit_collections")
    ELSE SendCollections(t, n)

(* Variant: the URL of line 111 is built with the id of line 63 *)
SendPositionPreferred(t, id) ==
    /\ _last_request_time' = clock
    /\ requests' = Append(requests, [time |-> clock, endpoint |-> "position",
                                     collection_id |-> PreferredCollection,
                                     call |-> call[t],
                                     status |-> "sent", answered |-> 0])
    /\ pc' = [pc EXCEPT ![t] = "fetch_weather_data"]
    /\ wake' = wake

(* _rate_limit line 49, then lines 110-135: the position GET goes out *)
SendPosition(t, id) ==
    /\ _last_request_time' = clock
    /\ requests' = Append(requests, [time |-> clock, endpoint |-> "position",
                                     collection_id |-> id, call |-> call[t],
                                     status |-> "sent", answered |-> 0])
    /\ pc' = [pc EXCEPT ![t] = "fetch_weather_data"]
    /\ wake' = wake

(* _fetch_weather_data from line 109 on *)
FetchWeatherData(t, last, id) ==
    IF clock - last < _rate_limit_delay
    THEN Sleep(t, last, "rate_limit_position")
    ELSE SendPosition(t, id)

(* async_update calls update() (weather.py, line 85): line 55, and on     *)
(* until the first suspension                                              *)
Start(t) ==
    /\ pc[t] = "idle"
    /\ started < MaxUpdates
    /\ started' = started + 1
    /\ call' = [call EXCEPT ![t] = started + 1]
    /\ before' = [before EXCEPT ![t] = snapshot]
    /\ attempts' = [attempts EXCEPT ![t] = 1]
    /\ result' = [result EXCEPT ![t] = "running"]
    /\ error' = [error EXCEPT ![t] = ""]
    /\ collection_id' = [collection_id EXCEPT ![t] = ""]
    /\ resolved' = [resolved EXCEPT ![t] = "none"]
    /\ IF clock - _last_request_time < _rate_limit_delay
       THEN Sleep(t, _last_request_time, "rate_limit_update")
       ELSE GetCollections(t, started + 1, clock)
    /\ UNCHANGED <<clock, snapvars, _attr_available, probe>>

(* The sleep of line 48 is over in the _rate_limit of line 55 *)
WakeUpdate(t) ==
    /\ pc[t] = "rate_limit_update"
    /\ clock >= wake[t]
    /\ GetCollections(t, call[t], clock)
    /\ UNCHANGED <<clock, snapvars, collection_id, attempts, result, error,
                   before, call, started, probe,
                   resolved, _attr_available>>

(* ... in the _rate_limit of line 77 *)
WakeCollections(t) ==
    /\ pc[t] = "rate_limit_collections"
    /\ clock >= wake[t]
    /\ SendCollections(t, call[t])
    /\ UNCHANGED <<clock, snapvars, collection_id, attempts, result, error,
                   before, call, started, probe,
                   resolved, _attr_available>>

(* ... in the _rate_limit of line 109 *)
WakePosition(t) ==
    /\ pc[t] = "rate_limit_position"
    /\ clock >= wake[t]
    /\ SendPosition(t, collection_id[t])
    /\ UNCHANGED <<clock, snapvars, collection_id, attempts, result, error,
                   before, call, started, probe,
                   resolved, _attr_available>>

(* The request update() call number n sent last *)
LastOf(n) ==
    CHOOSE m \in 1..Len(requests) :
        /\ requests[m].call = n
        /\ \A k \in (m + 1)..Len(requests) : requests[k].call # n

(* The log once that request is known to have had the outcome, at time at *)
Answered(n, outcome, at) ==
    [requests EXCEPT ![LastOf(n)] = [@ EXCEPT !.status = outcome, !.answered = at]]

(* Variant: the sleep after a 429 is as long as the normal spacing *)
TooManyRequestsShortSleep(t) ==
    /\ pc[t] \in {"get_collections", "fetch_weather_data"}
    /\ pc' = [pc EXCEPT ![t] = "cooldown"]
    /\ wake' = [wake EXCEPT ![t] = clock + _rate_limit_delay]
    /\ requests' = Answered(call[t], "429", clock)
    /\ UNCHANGED <<clock, _last_request_time, snapvars, collection_id, attempts,
                   result, error, before, call, started, probe,
                   resolved, _attr_available>>

(* Lines 85-88 and 136-139: status 429, the cooldown sleep begins *)
TooManyRequests(t) ==
    /\ pc[t] \in {"get_collections", "fetch_weather_data"}
    /\ pc' = [pc EXCEPT ![t] = "cooldown"]
    /\ wake' = [wake EXCEPT ![t] = clock + RateLimitCooldown]
    /\ requests' = Answered(call[t], "429", clock)
    /\ UNCHANGED <<clock, _last_request_time, snapvars, collection_id, attempts,
                   result, error, before, call, started, probe,
                   resolved, _attr_available>>

(* The cooldown sleep is over: line 88 or 139 raises *)
CooldownDone(t) ==
    /\ pc[t] = "cooldown"
    /\ clock >= wake[t]
    /\ Raise(t, "rate_limit")
    /\ UNCHANGED <<clock, _last_request_time, snapvars, wake, collection_id,
                   attempts, requests, before, call, started, probe,
                   resolved>>

(* Lines 89-90, 100-105: the collections GET fails *)
CollectionsFail(t) ==
    /\ pc[t] = "get_collections"
    /\ \E kind \in {"collections_status", "timeout", "network"} : Raise(t, kind)
    /\ UNCHANGED <<clock, _last_request_time, snapvars, wake, collection_id,
                   attempts, requests, before, call, started, probe,
                   resolved>>

(* Status 200: line 92 awaits the body *)
CollectionsOk(t) ==
    /\ pc[t] = "get_collections"
    /\ pc' = [pc EXCEPT ![t] = "collections_json"]
    /\ UNCHANGED <<clock, _last_request_time, snapvars, wake, collection_id,
                   attempts, result, error, requests, before, call, started, probe,
                   resolved, _attr_available>>

(* The body cannot be read *)
CollectionsJsonFail(t) ==
    /\ pc[t] = "collections_json"
    /\ \E kind \in {"timeout", "network"} : Raise(t, kind)
    /\ UNCHANGED <<clock, _last_request_time, snapvars, wake, collection_id,
                   attempts, requests, before, call, started, probe,
                   resolved>>

(* Variant: lines 59-60 are missing, and line 66 fails on the empty dict *)
CollectionsJsonNoCheck(t) ==
    /\ pc[t] = "collections_json"
    /\ \E body \in CollectionBodies :
          LET collections == Collections(body) IN
          IF collections = <<>>
          THEN /\ resolved' = [resolved EXCEPT ![t] = "empty"]
               /\ Raise(t, "IndexError")
               /\ UNCHANGED <<_last_request_time, wake, collection_id, requests>>
          ELSE /\ resolved' = [resolved EXCEPT ![t] = "some"]
               /\ collection_id' =
                      [collection_id EXCEPT ![t] = SelectCollection(collections)]
               /\ FetchWeatherData(t, _last_request_time, collection_id'[t])
               /\ UNCHANGED <<result, error, _attr_available>>
    /\ UNCHANGED <<clock, snapvars, attempts, before, call, started, probe>>

(* Lines 92-99, 59-70 and 109: the body is parsed, a collection chosen *)
CollectionsJson(t) ==
    /\ pc[t] = "collections_json"
    /\ \E body \in CollectionBodies :
          LET collections == Collections(body) IN
          IF collections = <<>>
          THEN /\ resolved' = [resolved EXCEPT ![t] = "empty"]
               /\ Raise(t, "no_collections")
               /\ UNCHANGED <<_last_request_time, wake, collection_id, requests>>
          ELSE /\ resolved' = [resolved EXCEPT ![t] = "some"]
               /\ collection_id' =
                      [collection_id EXCEPT ![t] = SelectCollection(collections)]
               /\ FetchWeatherData(t, _last_request_time, collection_id'[t])
               /\ UNCHANGED <<result, error, _attr_available>>
    /\ UNCHANGED <<clock, snapvars, attempts, before, call, started, probe>>

(* Lines 140-147: status 404 or another one, line 141 or 145 awaits the text *)
PositionStatus(t) ==
    /\ pc[t] = "fetch_weather_data"
    /\ \E kind \in {"not_found", "position_status"} :
          error' = [error EXCEPT ![t] = kind]
    /\ pc' = [pc EXCEPT ![t] = "position_text"]
    /\ UNCHANGED <<clock, _last_request_time, snapvars, wake, collection_id,
                   attempts, result, requests, before, call, started, probe,
                   resolved, _attr_available>>

(* Line 143 or 147 raises, or the text cannot be read *)
PositionText(t) ==
    /\ pc[t] = "position_text"
    /\ \E kind \in {error[t], "timeout", "network"} : Raise(t, kind)
    /\ UNCHANGED <<clock, _last_request_time, snapvars, wake, collection_id,
                   attempts, requests, before, call, started, probe,
                   resolved>>

(* Lines 151-156: the position GET fails *)
PositionFail(t) ==
    /\ pc[t] = "fetch_weather_data"
    /\ \E kind \in {"timeout", "network"} : Raise(t, kind)
    /\ UNCHANGED <<clock, _last_request_time, snapvars, wake, collection_id,
                   attempts, requests, before, call, started, probe,
                   resolved>>

(* Variant: the snapshot is emptied as soon as the status is 200, before  *)
(* the body is awaited                                                     *)
PositionOkClears(t) ==
    /\ pc[t] = "fetch_weather_data"
    /\ pc' = [pc EXCEPT ![t] = "position_json"]
    /\ current_data' = EmptyDict
    /\ hourly_forecast_data' = <<>>
    /\ UNCHANGED <<clock, _last_request_time, forecast_data, derived, decoded,
                   wake, collection_id, attempts, result, error, requests,
                   before, call, started, probe, resolved, _attr_available>>

(* Status 200: line 149 awaits the body *)
PositionOk(t) ==
    /\ pc[t] = "fetch_weather_data"
    /\ pc' = [pc EXCEPT ![t] = "position_json"]
    /\ UNCHANGED <<clock, _last_request_time, snapvars, wake, collection_id,
                   attempts, result, error, requests, before, call, started, probe,
                   resolved, _attr_available>>

(* The body cannot be read *)
PositionJsonFail(t) ==
    /\ pc[t] = "position_json"
    /\ \E kind \in {"timeout", "network"} : Raise(t, kind)
    /\ UNCHANGED <<clock, _last_request_time, snapvars, wake, collection_id,
                   attempts, requests, before, call, started, probe,
                   resolved>>

(* Line 150 has returned or raised as out: update() ends *)
Processed(t, data, out) ==
    /\ decoded' = data
    /\ current_data' = out.snap.current_data
    /\ hourly_forecast_data' = out.snap.hourly_forecast_data
    /\ forecast_data' = out.snap.forecast_data
    /\ derived' = [f \in SnapshotFields |->
                      IF f \in out.wrote THEN call[t] ELSE derived[f]]
    /\ IF out.exc # "" THEN Raise(t, out.exc) ELSE Return(t)

(* Lines 149-150: the body is decoded and update() ends *)
PositionJson(t) ==
    /\ pc[t] = "position_json"
    /\ \E data \in Payloads : Processed(t, data, _process_edr_data(data, snapshot))
    /\ UNCHANGED <<clock, _last_request_time, wake, collection_id, attempts,
                   requests, before, call, started, probe,
                   resolved>>

(* The awaits at which update() can be suspended *)
SuspensionPoints ==
    {"rate_limit_update", "rate_limit_collections", "rate_limit_position",
     "get_collections", "collections_json", "cooldown", "fetch_weather_data",
     "position_text", "position_json"}

(* The task running update() is cancelled: CancelledError is raised at the *)
(* await it is suspended on.  It is a BaseException, so neither line 71    *)
(* nor line 87 of weather.py catches it.                                   *)
Cancel(t) ==
    /\ pc[t] \in SuspensionPoints
    /\ pc' = [pc EXCEPT ![t] = "idle"]
    /\ result' = [result EXCEPT ![t] = "cancelled"]
    /\ error' = [error EXCEPT ![t] = "CancelledError"]
    /\ requests' = IF pc[t] = "cooldown"
                   THEN Answered(call[t], "cancelled", clock) ELSE requests
    /\ UNCHANGED <<clock, _last_request_time, snapvars, wake, collection_id,
                   attempts, before, call, started, probe,
                   resolved, _attr_available>>

(* Time passes on the event-loop clock *)
Tick ==
    /\ clock < MaxClock
    /\ clock' = clock + 1
    /\ UNCHANGED <<_last_request_time, snapvars, pc, wake, collection_id,
                   attempts, result, requests, before, error, call, started, probe,
                   resolved, _attr_available>>

Step(t) ==
    \/ Start(t)
    \/ WakeUpdate(t)
    \/ WakeCollections(t)
    \/ WakePosition(t)
    \/ TooManyRequests(t)
    \/ CooldownDone(t)
    \/ CollectionsFail(t)
    \/ CollectionsOk(t)
    \/ CollectionsJsonFail(t)
    \/ CollectionsJson(t)
    \/ PositionStatus(t)
    \/ PositionText(t)
    \/ PositionFail(t)
    \/ PositionOk(t)
    \/ PositionJsonFail(t)
    \/ PositionJson(t)
    \/ Cancel(t)

NoProbe == [op |-> "none"]

(* The client after __init__ (lines 36-40), no update() called yet *)
Constructed ==
    /\ _last_request_time = 0
    /\ current_data = EmptyDict
    /\ hourly_forecast_data = <<>>
    /\ forecast_data = <<>>
    /\ pc = [t \in Coroutines |-> "idle"]
    /\ wake = [t \in Coroutines |-> 0]
    /\ collection_id = [t \in Coroutines |-> ""]
    /\ attempts = [t \in Coroutines |-> 0]
    /\ result = [t \in Coroutines |-> "none"]
    /\ error = [t \in Coroutines |-> ""]
    /\ call = [t \in Coroutines |-> 0]
    /\ before = [t \in Coroutines |-> Snapshot(EmptyDict, <<>>, <<>>)]
    /\ requests = <<>>
    /\ derived = [f \in SnapshotFields |-> 0]
    /\ decoded = Data(<<>>, NoRanges)
    /\ started = 0
    /\ resolved = [t \in Coroutines |-> "none"]
    /\ _attr_available = TRUE

(* The loop's clock is monotonic and may stand anywhere at construction *)
Init ==
    /\ Constructed
    /\ clock \in 0.._rate_limit_delay
    /\ probe = NoProbe

(* Single flight: the caller runs one update() at a time, as coroutine 1 *)
Next == Tick \/ Step(1)

Spec == Init /\ [][Next]_vars

(* The steps of an update() that is not cancelled, gets its collections    *)
(* and loses the connection in the position request: it sends both         *)
(* requests and leaves the snapshot alone                                  *)
Requesting(t) ==
    \/ Start(t)
    \/ WakeUpdate(t)
    \/ WakeCollections(t)
    \/ CollectionsOk(t)
    \/ CollectionsJson(t)
    \/ WakePosition(t)
    \/ PositionFail(t)

(* No single flight: the caller starts the second update() while the first *)
(* is in flight; it then runs as coroutine 2                               *)
Overlapping(t) ==
    /\ pc[t] = "idle" => (started = 1 /\ pc[1] # "idle")
    /\ Requesting(t)

(* Time passes while the calls overlap *)
OverlapTick == clock < MaxOverlapClock /\ Tick

OverlapNext == OverlapTick \/ Requesting(1) \/ Overlapping(2)

OverlapSpec == Init /\ [][OverlapNext]_vars

-----------------------------------------------------------------------------
(* The pure parts of the client, each applied once to an input drawn from  *)
(* a bounded set                                                           *)

(* Raw numbers around every threshold of _extract_parameter_value *)
RawValues ==
    {-500, 2800, 7500, 28000, 10130000}
    \cup (0..120) \cup (19995..20005) \cup (27310..27320)
    \cup {1000000 + 100 * n : n \in -3..3}

(* Raw pressures are whole pascals *)
ExtractInputs ==
    {e \in {[op |-> "extract", parameter |-> p, raw |-> r, done |-> FALSE,
             out |-> Returned(None)] : p \in ParameterCodes, r \in RawValues} :
        e.parameter = "pressure-sealevel" => e.raw % 100 = 0}

ResolveInputs ==
    {[op |-> "resolve", body |-> b, done |-> FALSE, url_id |-> ""] :
        b \in {c \in CollectionBodies : c.ids # <<>>}}

TimeEntries == {Iso(1, 23), Iso(2, 0), BadStr, NonStr}

(* Precipitation and cloud-cover arrays: shorter than the axis, with a     *)
(* null, as fraction and as percent                                        *)
RainAndClouds ==
    {[precipitation |-> <<Num(20), None>>, cloud_cover |-> <<>>],
     [precipitation |-> <<Num(20), None>>,
      cloud_cover |-> <<Num(90), Num(9000), Num(3000)>>],
     [precipitation |-> <<Num(100), Num(50), Num(5)>>, cloud_cover |-> <<>>]}

DecodeInputs ==
    {[op |-> "decode", done |-> FALSE, exc |-> "", wrote |-> {},
      data |-> Data(axis, Ranges(temperature, rc.precipitation, rc.cloud_cover))] :
        axis \in SeqsUpTo(TimeEntries, MaxAxis),
        temperature \in SeqsUpTo({None, Num(28000), Num(-200), Str}, MaxAxis),
        rc \in RainAndClouds}

(* const.py: MAX_FORECAST_DAYS, and the wire codes of EDR_PARAMETERS in    *)
(* the order of the dict                                                   *)
MAX_FORECAST_DAYS == 5

EDR_PARAMETERS ==
    <<"temperature-2m", "pressure-sealevel", "relative-humidity-2m",
      "wind-speed-10m", "gust-wind-speed-10m", "total-precipitation",
      "fraction-of-cloud-cover", "dew-point-temperature-2m",
      "time-integral-of-total-solid-precipitation-flux",
      "total-column-vertically-integrated-water-vapour">>

(* An aware datetime: the instant in seconds of UTC, and the UTC offset of *)
(* its time zone in seconds                                                *)
Aware(instant, utcoffset) == [utc |-> instant, offset |-> utcoffset]

(* dt_util.now(): the instant in the time zone the host is configured with *)
Now(instant, utcoffset) == Aware(instant, utcoffset)

(* now + timedelta(days=MAX_FORECAST_DAYS) *)
PlusDays(dt, days) == Aware(dt.utc + days * 86400, dt.offset)

(* strftime("%Y-%m-%dT%H:%M:%SZ"): the fields of the datetime's own wall    *)
(* clock followed by the letter Z.  wall is that wall-clock time in        *)
(* seconds, which is the instant the string names when it is read as UTC.  *)
Strftime(dt) == [wall |-> dt.utc + dt.offset, suffix |-> "Z"]

(* Lines 115-130: the query parameters of the position request *)
PositionParams(longitude, latitude, now) ==
    [coords |-> <<"POINT", longitude, latitude>>,
     datetime |-> [start |-> Strftime(now),
                   end |-> Strftime(PlusDays(now, MAX_FORECAST_DAYS))],
     parameter_name |-> EDR_PARAMETERS,
     f |-> "CoverageJSON"]

(* Hosts east and west of Greenwich, around midnight and around noon;      *)
(* coordinates in hundredths of a degree                                   *)
QueryInputs ==
    {[op |-> "query", instant |-> u, utcoffset |-> z, longitude |-> c[1],
      latitude |-> c[2], done |-> FALSE, params |-> <<>>] :
        u \in {0, 1, 3599, 43200, 86399},
        z \in {-3600, 0, 3600, 7200},
        c \in {<<1257, 5568>>, <<5568, 1257>>, <<-5172, 6418>>}}

(* The query of _fetch_weather_data at the instant, on the host *)
Query ==
    /\ probe.op = "query" /\ ~probe.done
    /\ probe' = [probe EXCEPT
                    !.done = TRUE,
                    !.params = PositionParams(probe.longitude, probe.latitude,
                                              Now(probe.instant, probe.utcoffset))]
    /\ UNCHANGED <<clock, _last_request_time, snapvars, pc, wake, collection_id,
                   attempts, result, requests, before, error, call, started,
                   resolved, _attr_available>>

(* Pairs around every threshold of _estimate_weather_code, in hundredths *)
EstimateInputs ==
    {[op |-> "estimate", precipitation |-> p, cloud_cover |-> c,
      done |-> FALSE, code |-> -1] :
        p \in {None} \cup {Num(x) : x \in {-5, 0, 9, 10, 11, 20}},
        c \in {None} \cup {Num(x) : x \in {0, 1000, 2999, 3000, 3001, 5000,
                                           8000, 8001, 8500, 10000}}}

(* _estimate_weather_code on the pair *)
Estimate ==
    /\ probe.op = "estimate" /\ ~probe.done
    /\ probe' = [probe EXCEPT
                    !.done = TRUE,
                    !.code = _estimate_weather_code(probe.precipitation,
                                                    probe.cloud_cover)]
    /\ UNCHANGED <<clock, _last_request_time, snapvars, pc, wake, collection_id,
                   attempts, result, requests, before, error, call, started,
                   resolved, _attr_available>>

(* A parameter object without a "values" key *)
NoValues == [present |-> TRUE, has_values |-> FALSE, values |-> <<>>]

(* Two hours in which one parameter is absent, has no values array, has an *)
(* array shorter than the axis, or holds a null                            *)
SparseInputs ==
    {[op |-> "decode", done |-> FALSE, exc |-> "", wrote |-> {},
      data |-> Data(<<Iso(1, 23), Iso(2, 0)>>, [NoRanges EXCEPT ![p] = shape])] :
        p \in ParameterCodes,
        shape \in {Absent, NoValues, Values(<<>>), Values(<<Num(500)>>),
                   Values(<<None, Num(500)>>), Values(<<Num(500), None>>)}}

(* Three hours over two days, or over one, with wind speeds that may be   *)
(* null or missing at the end, under clouds of 90, 50 and 10 percent       *)
WindInputs ==
    {[op |-> "decode", done |-> FALSE, exc |-> "", wrote |-> {},
      data |-> Data(axis, [Ranges(<<>>, <<>>, <<Num(90), Num(50), Num(10)>>)
                              EXCEPT !["wind-speed-10m"] = Values(wind)])] :
        axis \in {<<Iso(1, 22), Iso(1, 23), Iso(2, 0)>>,
                  <<Iso(1, 23), Iso(2, 0), Iso(2, 1)>>,
                  <<Iso(2, 0), Iso(2, 1), Iso(2, 2)>>},
        wind \in SeqsUpTo({None, Num(300), Num(700)}, MaxAxis)}

(* One hour whose cloud cover is a fraction (0.30, 0.31, 0.80, 0.81, 1.00) *)
(* or a percentage (1.01, 30, 31, 80, 81), with no, zero or 0.20 mm of     *)
(* precipitation                                                           *)
CloudInputs ==
    {[op |-> "decode", done |-> FALSE, exc |-> "", wrote |-> {},
      data |-> Data(<<Iso(1, 23)>>, Ranges(<<>>, precipitation, <<Num(cloud)>>))] :
        cloud \in {0, 30, 31, 80, 81, 100, 101, 3000, 3100, 8000, 8100},
        precipitation \in {<<>>, <<None>>, <<Num(0)>>, <<Num(20)>>}}

(* _extract_parameter_value on a ranges object holding the one raw value *)
Extract ==
    /\ probe.op = "extract" /\ ~probe.done
    /\ probe' = [probe EXCEPT
                    !.done = TRUE,
                    !.out = _extract_parameter_value(
                                [NoRanges EXCEPT ![probe.parameter] =
                                                     Values(<<Num(probe.raw)>>)],
                                probe.parameter, 1)]
    /\ UNCHANGED <<clock, _last_request_time, snapvars, pc, wake, collection_id,
                   attempts, result, requests, before, error, call, started,
                   resolved, _attr_available>>

(* Lines 93-97 and 63-66, then the collection id of the URL of line 111 *)
Resolve ==
    /\ probe.op = "resolve" /\ ~probe.done
    /\ probe' = [probe EXCEPT
                    !.done = TRUE,
                    !.url_id = SelectCollection(Collections(probe.body))]
    /\ UNCHANGED <<clock, _last_request_time, snapvars, pc, wake, collection_id,
                   attempts, result, requests, before, error, call, started,
                   resolved, _attr_available>>

ProbeDecoded(out) ==
    /\ probe' = [probe EXCEPT !.done = TRUE, !.exc = out.exc, !.wrote = out.wrote]
    /\ decoded' = probe.data
    /\ current_data' = out.snap.current_data
    /\ hourly_forecast_data' = out.snap.hourly_forecast_data
    /\ forecast_data' = out.snap.forecast_data
    /\ derived' = [f \in SnapshotFields |->
                      IF f \in out.wrote THEN 1 ELSE derived[f]]

(* _process_edr_data on the freshly constructed client *)
Decode ==
    /\ probe.op = "decode" /\ ~probe.done
    /\ ProbeDecoded(_process_edr_data(probe.data, snapshot))
    /\ UNCHANGED <<clock, _last_request_time, pc, wake, collection_id,
                   attempts, result, requests, before, error, call, started,
                   resolved, _attr_available>>

PureInit ==
    /\ Constructed
    /\ clock = 0
    /\ probe \in ExtractInputs \cup ResolveInputs \cup DecodeInputs
                 \cup EstimateInputs \cup QueryInputs \cup SparseInputs
                 \cup WindInputs \cup CloudInputs

PureNext == Extract \/ Resolve \/ Decode \/ Estimate \/ Query

PureSpec == PureInit /\ [][PureNext]_vars

-----------------------------------------------------------------------------
(* The weather entity reading the snapshot (weather.py) *)

(* const.py, lines 25-36 *)
WEATHER_CONDITIONS ==
    [key \in {"clear", "partly_cloudy", "cloudy", "fog", "rain", "snow", "sleet",
              "thunder", "drizzle", "shower"} |->
        CASE key = "clear" -> "clear-night"
          [] key = "partly_cloudy" -> "partlycloudy"
          [] key = "cloudy" -> "cloudy"
          [] key = "fog" -> "fog"
          [] key = "rain" -> "rainy"
          [] key = "snow" -> "snowy"
          [] key = "sleet" -> "snowy-rainy"
          [] key = "thunder" -> "lightning"
          [] key = "drizzle" -> "rainy"
          [] key = "shower" -> "rainy"]

(* str(weather_code) of an integer code *)
PyStr(weather_code) ==
    CASE weather_code = 0 -> "0"
      [] weather_code = 1 -> "1"
      [] weather_code = 2 -> "2"
      [] weather_code = 3 -> "3"

(* WEATHER_CONDITIONS.get(str(weather_code), "unknown") *)
ConditionOf(weather_code) ==
    IF PyStr(weather_code) \in DOMAIN WEATHER_CONDITIONS
    THEN WEATHER_CONDITIONS[PyStr(weather_code)]
    ELSE "unknown"

(* What a property returns, or a Forecast lacks, when there is no code *)
NoCondition == "None"

(* The condition property *)
condition ==
    IF current_data = EmptyDict THEN NoCondition
    ELSE ConditionOf(current_data.weather_code)

(* The conditions of the list async_forecast_hourly returns *)
async_forecast_hourly ==
    [n \in 1..Len(hourly_forecast_data) |->
        ConditionOf(hourly_forecast_data[n].weather_code)]

(* The conditions of the list async_forecast_daily returns *)
async_forecast_daily ==
    [n \in 1..Len(forecast_data) |->
        IF forecast_data[n].weather_code = None THEN NoCondition
        ELSE ConditionOf(forecast_data[n].weather_code.v)]

-----------------------------------------------------------------------------
(* Properties *)

(* C1: an update() that ended by raising, whatever the error, left          *)
(* current_data, hourly_forecast_data and forecast_data as they were when   *)
(* it was called.                                                           *)
C1_FailureKeepsSnapshot ==
    result[1] = "raised" => snapshot = before[1]

(* A second update() raised while decoding, over a snapshot the first had filled *)
C1_Witness ==
    /\ result[1] = "raised"
    /\ error[1] = "AttributeError"
    /\ call[1] = 2
    /\ before[1].hourly_forecast_data # <<>>

(* Every index of the axis is malformed: its time string does not parse or *)
(* one of its values has the wrong type                                    *)
Malformed(data, i) ==
    \/ ParseTime(TimeValues(data)[i]).exc # ""
    \/ WeatherData(data.ranges, ParseTime(TimeValues(data)[i]), i).exc # ""

AllMalformed(data) ==
    /\ data.has_ranges
    /\ TimeValues(data) # <<>>
    /\ \A i \in 1..Len(TimeValues(data)) : Malformed(data, i)

(* C2: when the position response has a non-empty time axis of which every *)
(* index is malformed, update() does not return successfully and the        *)
(* snapshot stays as it was before the call.                                *)
C2_ZeroRecordsIsFailure ==
    (AllMalformed(decoded) /\ result[1] # "running") =>
        (result[1] = "raised" /\ snapshot = before[1])

(* C3: in every state a consumer can observe, the three snapshot fields    *)
(* were set from the same response: none is newer than another.            *)
C3_AtomicSwap ==
    /\ derived["current_data"] = derived["hourly_forecast_data"]
    /\ derived["hourly_forecast_data"] = derived["forecast_data"]

(* The second update() is suspended on its body while the snapshot of the first is served *)
C3_Witness ==
    /\ pc[1] = "position_json"
    /\ call[1] = 2
    /\ derived["forecast_data"] = 1
    /\ hourly_forecast_data # <<>>

(* C4: with update() calls that do not overlap, any two consecutive        *)
(* outbound requests, of either endpoint, within one update() or across    *)
(* two, are issued at least _rate_limit_delay apart on the loop's clock.   *)
C4_RequestSpacing ==
    \A n \in 2..Len(requests) :
        requests[n].time - requests[n - 1].time >= _rate_limit_delay

(* A position request followed by the collections request of the next update() *)
C4_Witness ==
    \E n \in 2..Len(requests) :
        /\ requests[n - 1].endpoint = "position"
        /\ requests[n].endpoint = "collections"
        /\ requests[n].call = requests[n - 1].call + 1

(* C5: with max_retries = 3, an update() that is answered 429 on attempt 1 *)
(* or 2 goes on to a further attempt: it does not end by raising the       *)
(* rate-limit error before attempt max_retries.                            *)
C5_RetriesAfter429 ==
    (result[1] = "raised" /\ error[1] = "rate_limit") => attempts[1] = _max_retries

(* C6: an update() of which every attempt failed made exactly max_retries  *)
(* resolve+query attempts before it raised.                                *)
C6_ExactlyMaxRetriesAttempts ==
    result[1] = "raised" => attempts[1] \in {_max_retries_slow, _max_retries}

(* C7: when a 200 position response has no ranges object, no time axis or  *)
(* an empty time axis, update() does not return successfully.              *)
C7_MissingAxisIsFailure ==
    result[1] = "returned" => (decoded.has_ranges /\ TimeValues(decoded) # <<>>)

ElementsOf(q) == {q[n] : n \in 1..Len(q)}

(* C8: for a non-empty list of collections, the id in the position URL is  *)
(* the preferred id when the list holds it anywhere, and else the id of    *)
(* the first element as the server sent the list, duplicates or not.       *)
C8_CollectionChoice ==
    (probe.op = "resolve" /\ probe.done) =>
        probe.url_id = IF PreferredCollection \in ElementsOf(probe.body.ids)
                       THEN PreferredCollection
                       ELSE probe.body.ids[1]

(* The first id comes again later in the list and the preferred one is absent *)
C8_Witness ==
    /\ probe.op = "resolve" /\ probe.done
    /\ probe.body.ids = <<"wam_dw", "dini_sf", "wam_dw">>
    /\ probe.url_id = "wam_dw"

GoodIndices(data) ==
    {i \in 1..Len(TimeValues(data)) : ~Malformed(data, i)}

(* The k-th index of S in increasing order *)
Kth(S, k) == CHOOSE i \in S : Cardinality({j \in S : j < i}) = k - 1

(* C9: after a response with N time-axis entries is decoded, the hourly    *)
(* sequence has at most N records, one for every index that is not         *)
(* malformed, in increasing order of the index.                            *)
C9_HourlyFollowsAxis ==
    (probe.op = "decode" /\ probe.done /\ probe.exc = "" /\ probe.wrote # {}) =>
        LET good == GoodIndices(decoded) IN
        /\ Len(hourly_forecast_data) <= Len(TimeValues(decoded))
        /\ Len(hourly_forecast_data) = Cardinality(good)
        /\ \A k \in 1..Len(hourly_forecast_data) :
              LET i == Kth(good, k) IN
              hourly_forecast_data[k] =
                  WeatherData(decoded.ranges, ParseTime(TimeValues(decoded)[i]), i).rec

(* Three entries, the middle one malformed, two different records kept in order *)
C9_Witness ==
    /\ probe.op = "decode" /\ probe.done /\ probe.exc = ""
    /\ Len(TimeValues(decoded)) = 3
    /\ GoodIndices(decoded) = {1, 3}
    /\ Len(hourly_forecast_data) = 2
    /\ hourly_forecast_data[1].time # hourly_forecast_data[2].time

(* The table of the unit rules, in hundredths *)
ExpectedValue(parameter, raw) ==
    CASE parameter \in {"temperature-2m", "dew-point-temperature-2m"} ->
            IF raw > 20000 THEN raw - 27315 ELSE raw
      [] parameter = "pressure-sealevel" ->
            IF raw > 1000000 THEN raw \div 100 ELSE raw
      [] parameter = "fraction-of-cloud-cover" ->
            IF raw <= 100 THEN raw * 100 ELSE raw
      [] OTHER -> raw

(* C10: for a non-null raw value _extract_parameter_value returns          *)
(* raw - 273.15 for a temperature or dew point above 200, raw / 100 for a  *)
(* pressure above 10000, raw * 100 for a cloud cover of at most 1, and the *)
(* raw value in every other case, 200, 10000 and 1 being on the side named.*)
C10_UnitRules ==
    (probe.op = "extract" /\ probe.done) =>
        /\ probe.out.exc = ""
        /\ probe.out.val = Num(ExpectedValue(probe.parameter, probe.raw))

(* A cloud cover of exactly 1 has become 100 *)
C10_Witness ==
    /\ probe.op = "extract" /\ probe.done
    /\ probe.parameter = "fraction-of-cloud-cover"
    /\ probe.raw = 100
    /\ probe.out.val = Num(10000)

(* The category each code stands for: 3 Rain, 2 Cloudy, 1 Partly cloudy,   *)
(* 0 Clear                                                                 *)
Category(code) ==
    CASE code = 3 -> "rainy"
      [] code = 2 -> "cloudy"
      [] code = 1 -> "partlycloudy"
      [] code = 0 -> "clear"

(* C11: for every pair (precipitation, cloud_cover), each possibly null,   *)
(* _estimate_weather_code returns the category of the first rule that      *)
(* matches, in the order precipitation > 0.1 rainy, cloud_cover > 80       *)
(* cloudy, cloud_cover > 30 partlycloudy, otherwise clear; a null or zero  *)
(* input matches no rule and 0.1, 80 and 30 do not match their own rule.   *)
C11_WeatherCodeRules ==
    (probe.op = "estimate" /\ probe.done) =>
        Category(probe.code) =
            IF probe.precipitation.k = "num" /\ probe.precipitation.v > 10
            THEN "rainy"
            ELSE IF probe.cloud_cover.k = "num" /\ probe.cloud_cover.v > 8000
            THEN "cloudy"
            ELSE IF probe.cloud_cover.k = "num" /\ probe.cloud_cover.v > 3000
            THEN "partlycloudy"
            ELSE "clear"

(* Precipitation of exactly 0.1 with a cloud cover of exactly 80: partly cloudy *)
C11_Witness ==
    /\ probe.op = "estimate" /\ probe.done
    /\ probe.precipitation = Num(10)
    /\ probe.cloud_cover = Num(8000)
    /\ probe.code = 1

(* The hourly records are in non-decreasing order of their date, as the    *)
(* time axis of a response is                                              *)
Ascending(hourly) ==
    \A k \in 1..(Len(hourly) - 1) : hourly[k].time.day <= hourly[k + 1].time.day

(* The non-null values of field f among the hourly records of the date *)
DayValues(hourly, date, f) ==
    {hourly[k][f].v : k \in {j \in 1..Len(hourly) :
                                 hourly[j].time.day = date /\ hourly[j][f].k = "num"}}

SetMax(S) == CHOOSE x \in S : \A y \in S : y <= x
SetMin(S) == CHOOSE x \in S : \A y \in S : x <= y

(* C12: after a response with an ascending time axis is decoded, every     *)
(* daily record has as temperature_max and temperature_min the maximum and *)
(* minimum of the non-null temperatures of the hourly records of its date, *)
(* and null for both, never an infinity, when the date has none; so they   *)
(* are null together and temperature_max >= temperature_min otherwise.     *)
C12_DailyTemperatureRange ==
    (probe.op = "decode" /\ probe.done /\ probe.wrote # {}
        /\ Ascending(hourly_forecast_data)) =>
        \A n \in 1..Len(forecast_data) :
            LET day_data == forecast_data[n]
                temps == DayValues(hourly_forecast_data, day_data.time.day,
                                   "temperature")
            IN  /\ day_data.temperature_max =
                       IF temps = {} THEN None ELSE Num(SetMax(temps))
                /\ day_data.temperature_min =
                       IF temps = {} THEN None ELSE Num(SetMin(temps))
                /\ day_data.temperature_max.k \in {"none", "num"}
                /\ day_data.temperature_min.k = day_data.temperature_max.k
                /\ day_data.temperature_max.k = "num" =>
                       day_data.temperature_max.v >= day_data.temperature_min.v

(* A day of 6.85 and -2.00 degrees followed by a day without a temperature *)
C12_Witness ==
    /\ probe.op = "decode" /\ probe.done
    /\ Len(hourly_forecast_data) = 3
    /\ Len(forecast_data) = 2
    /\ forecast_data[1].temperature_max = Num(685)
    /\ forecast_data[1].temperature_min = Num(-200)
    /\ forecast_data[2].temperature_max = None
    /\ forecast_data[2].temperature_min = None

RECURSIVE SeqSum(_)
SeqSum(q) == IF q = <<>> THEN 0 ELSE Head(q) + SeqSum(Tail(q))

(* The non-null precipitation of the hourly records of the date, in order *)
DayPrecipitation(hourly, date) ==
    LET of_day == SelectSeq(hourly, LAMBDA h : h.time.day = date
                                               /\ h.precipitation.k = "num")
    IN  [k \in 1..Len(of_day) |-> of_day[k].precipitation.v]

AllPrecipitation(hourly) ==
    LET given == SelectSeq(hourly, LAMBDA h : h.precipitation.k = "num")
    IN  [k \in 1..Len(given) |-> given[k].precipitation.v]

(* C13: after a response is decoded, the precipitation of all daily        *)
(* records sums to the non-null precipitation of all hourly records, and,  *)
(* the time axis being ascending, every daily record holds the sum of the  *)
(* non-null precipitation of the hourly records of its date, 0 when the    *)
(* date has none.                                                          *)
C13_DailyPrecipitationSum ==
    (probe.op = "decode" /\ probe.done /\ probe.wrote # {}) =>
        /\ SeqSum([n \in 1..Len(forecast_data) |-> forecast_data[n].precipitation.v])
               = SeqSum(AllPrecipitation(hourly_forecast_data))
        /\ \A n \in 1..Len(forecast_data) : forecast_data[n].precipitation.k = "num"
        /\ Ascending(hourly_forecast_data) =>
               \A n \in 1..Len(forecast_data) :
                   forecast_data[n].precipitation.v =
                       SeqSum(DayPrecipitation(hourly_forecast_data,
                                               forecast_data[n].time.day))

(* 1.00 and 0.50 on the first day, 0.05 on the second *)
C13_Witness ==
    /\ probe.op = "decode" /\ probe.done
    /\ Len(hourly_forecast_data) = 3
    /\ Len(forecast_data) = 2
    /\ forecast_data[1].precipitation = Num(150)
    /\ forecast_data[2].precipitation = Num(5)

(* C14: the position query has its coords with the longitude before the   *)
(* latitude, a datetime range that starts at the current instant expressed *)
(* in UTC, whatever the UTC offset of the host, and ends exactly           *)
(* MAX_FORECAST_DAYS later, both written with a trailing Z, and f equal to *)
(* CoverageJSON.                                                           *)
C14_QueryWindowIsUtc ==
    (probe.op = "query" /\ probe.done) =>
        /\ probe.params.coords = <<"POINT", probe.longitude, probe.latitude>>
        /\ probe.params.datetime.start = [wall |-> probe.instant, suffix |-> "Z"]
        /\ probe.params.datetime.end =
               [wall |-> probe.instant + MAX_FORECAST_DAYS * 86400, suffix |-> "Z"]
        /\ probe.params.f = "CoverageJSON"

(* C15: an update() that was cancelled, at whichever await it was          *)
(* suspended on, left current_data, hourly_forecast_data and forecast_data *)
(* as they were when it was called.                                        *)
C15_CancelKeepsSnapshot ==
    result[1] = "cancelled" => snapshot = before[1]

(* The second update() was cancelled after its position request went out,  *)
(* over a snapshot the first had filled                                    *)
C15_Witness ==
    /\ result[1] = "cancelled"
    /\ call[1] = 2
    /\ before[1].hourly_forecast_data # <<>>
    /\ requests # <<>>
    /\ requests[Len(requests)].endpoint = "position"
    /\ requests[Len(requests)].call = 2

(* C16: once async_update() has ended, _attr_available is false exactly    *)
(* when update() raised and true exactly when that update() replaced the   *)
(* three snapshot fields from its response; after a failure the snapshot   *)
(* the entity serves is the one of before the call.                        *)
C16_AvailableIffFresh ==
    result[1] \in {"returned", "raised"} =>
        /\ (_attr_available = FALSE) <=> (result[1] = "raised")
        /\ (_attr_available = TRUE) <=>
               (\A f \in SnapshotFields : derived[f] = call[1])
        /\ result[1] = "raised" => snapshot = before[1]

(* Index i of the response is defective: its time entry is not a string   *)
(* holding an ISO-8601 timestamp, or one of its values is not a number     *)
Defective(data, i) ==
    \/ TimeValues(data)[i].kind # "iso"
    \/ \E p \in ParameterCodes :
          /\ data.ranges[p].present /\ data.ranges[p].has_values
          /\ i <= Len(data.ranges[p].values)
          /\ data.ranges[p].values[i].k = "str"

Sound(data) == {i \in 1..Len(TimeValues(data)) : ~Defective(data, i)}

(* C17: whatever the defect of a time-axis entry (a string that is not a   *)
(* timestamp, a null or another non-string, a value of the wrong type at   *)
(* that index), decoding raises nothing, skips that index only and keeps a *)
(* record for every other index.                                           *)
C17_AnyDefectSkipsOneIndex ==
    (probe.op = "decode" /\ probe.done) =>
        /\ probe.exc = ""
        /\ Len(hourly_forecast_data) = Cardinality(Sound(decoded))

(* Parameter p has nothing to give at index i *)
Missing(data, p, i) ==
    \/ ~data.ranges[p].present
    \/ ~data.ranges[p].has_values
    \/ i > Len(data.ranges[p].values)
    \/ data.ranges[p].values[i] = None

(* The place in the hourly sequence of the record of sound index i *)
PlaceOf(data, i) == Cardinality({j \in Sound(data) : j <= i})

(* C18: when every time entry is a string, decoding raises nothing, and    *)
(* the record of every sound index i is there and holds null for each      *)
(* parameter that is absent from ranges, has no values array, has an array *)
(* that ends before i, or has null at i.                                   *)
C18_MissingValueIsNull ==
    (probe.op = "decode" /\ probe.done
        /\ \A i \in 1..Len(TimeValues(decoded)) :
               TimeValues(decoded)[i].kind # "nonstr") =>
        /\ probe.exc = ""
        /\ Len(hourly_forecast_data) = Cardinality(Sound(decoded))
        /\ \A i \in Sound(decoded) : \A p \in ParameterCodes :
               Missing(decoded, p, i) =>
                   hourly_forecast_data[PlaceOf(decoded, i)][FieldOf(p)] = None

(* The temperature array holds one number for a time axis of two hours *)
C18_Witness ==
    /\ probe.op = "decode" /\ probe.done
    /\ Len(TimeValues(decoded)) = 2
    /\ decoded.ranges["temperature-2m"].values = <<Num(500)>>
    /\ ~decoded.ranges["pressure-sealevel"].present
    /\ Len(hourly_forecast_data) = 2
    /\ hourly_forecast_data[1].temperature = Num(500)
    /\ hourly_forecast_data[2].temperature = None

(* The requests of update() call number n to the endpoint *)
RequestsOf(n, endpoint) ==
    {m \in 1..Len(requests) :
        requests[m].call = n /\ requests[m].endpoint = endpoint}

(* C19: within one update() the position request goes out only after the   *)
(* collections request was answered 200 and a collection id was selected,  *)
(* never while the collections request is awaited, and its URL holds       *)
(* exactly the selected id; each call sends at most one request to each    *)
(* endpoint.                                                               *)
C19_PositionAfterCollections ==
    /\ \A n \in 1..Len(requests) :
          requests[n].endpoint = "position" =>
              /\ \E m \in 1..(n - 1) :
                     /\ requests[m].endpoint = "collections"
                     /\ requests[m].call = requests[n].call
              /\ requests[n].collection_id \in CollectionIds
              /\ requests[n].call = call[1] =>
                     /\ resolved[1] = "some"
                     /\ requests[n].collection_id = collection_id[1]
    /\ pc[1] \in {"rate_limit_update", "rate_limit_collections",
                  "get_collections", "collections_json"} =>
          /\ RequestsOf(call[1], "position") = {}
          /\ resolved[1] = "none"
    /\ pc[1] \in {"rate_limit_position", "fetch_weather_data", "position_text",
                  "position_json"} => resolved[1] = "some"
    /\ \A n \in 1..started :
          /\ Cardinality(RequestsOf(n, "collections")) <= 1
          /\ Cardinality(RequestsOf(n, "position")) <= 1

(* The position request of a second update() is awaited, with an id that   *)
(* is not the preferred one                                                *)
C19_Witness ==
    /\ pc[1] = "fetch_weather_data"
    /\ call[1] = 2
    /\ collection_id[1] = "wam_dw"
    /\ Len(requests) = 4
    /\ requests[4].endpoint = "position"
    /\ requests[4].collection_id = "wam_dw"

(* C20: when the collections response is 200 and holds no collection,      *)
(* update() raises the no-collections error, has sent no position request  *)
(* and leaves the snapshot as it was.                                      *)
C20_NoCollectionsFails ==
    resolved[1] = "empty" =>
        /\ result[1] = "raised"
        /\ error[1] = "no_collections"
        /\ RequestsOf(call[1], "position") = {}
        /\ snapshot = before[1]

(* The second update() got no collection, over a snapshot the first filled *)
C20_Witness ==
    /\ resolved[1] = "empty"
    /\ call[1] = 2
    /\ result[1] = "raised"
    /\ before[1].hourly_forecast_data # <<>>
    /\ RequestsOf(1, "position") # {}

(* The requests that were answered 429: those whose update() then slept    *)
(* the cooldown out ("429") or was cancelled in that sleep ("cancelled")   *)
Got429(m) == requests[m].status \in {"429", "cancelled"}

HoursOf(hourly, date) == {j \in 1..Len(hourly) : hourly[j].time.day = date}

(* C22: after a response with an ascending time axis is decoded, every     *)
(* daily record has the wind speed of the last hourly record of its date   *)
(* whose wind speed is not null (a later null does not overwrite it), and  *)
(* the weather code of the last hourly record of its date (every hourly    *)
(* record has one); no hourly record carries a wind direction, and the     *)
(* daily wind direction keeps its initial 0.0.                             *)
C22_DailyLastValue ==
    (probe.op = "decode" /\ probe.done /\ probe.wrote # {}
        /\ Ascending(hourly_forecast_data)) =>
        \A n \in 1..Len(forecast_data) :
            LET day_data == forecast_data[n]
                of_day == HoursOf(hourly_forecast_data, day_data.time.day)
                windy == {j \in of_day :
                             hourly_forecast_data[j].wind_speed.k # "none"}
            IN  /\ of_day # {}
                /\ day_data.wind_speed =
                       IF windy = {} THEN Num(0)
                       ELSE hourly_forecast_data[SetMax(windy)].wind_speed
                /\ day_data.weather_code =
                       Num(hourly_forecast_data[SetMax(of_day)].weather_code)
                /\ day_data.wind_direction = Num(0)

(* 3.00 m/s then null on the first day: the day keeps 3.00 and has the     *)
(* code of its last hour                                                   *)
C22_Witness ==
    /\ probe.op = "decode" /\ probe.done
    /\ Len(hourly_forecast_data) = 3
    /\ Len(forecast_data) = 2
    /\ hourly_forecast_data[1].wind_speed = Num(300)
    /\ hourly_forecast_data[2].wind_speed = None
    /\ hourly_forecast_data[2].time.day = hourly_forecast_data[1].time.day
    /\ forecast_data[1].wind_speed = Num(300)
    /\ hourly_forecast_data[1].weather_code = 2
    /\ forecast_data[1].weather_code = Num(1)

(* The index of the first hourly record of the date *)
FirstOf(hourly, date) == SetMin(HoursOf(hourly, date))

(* The hourly records of the date, in order *)
DayHours(hourly, date) == SelectSeq(hourly, LAMBDA h : h.time.day = date)

(* C23: after a response is decoded, the hourly records are in the order   *)
(* of the time axis (nothing is sorted); and when that order is ascending, *)
(* the daily records have pairwise distinct dates, which are exactly the   *)
(* dates of the hourly records, they are in the order in which their dates *)
(* first appear and carry the time of that first record, and each is the   *)
(* aggregate of exactly the hourly records of its date.                    *)
C23_OneRecordPerDate ==
    (probe.op = "decode" /\ probe.done /\ probe.wrote # {}) =>
        /\ \A k \in 1..Len(hourly_forecast_data) :
               LET t == ParseTime(TimeValues(decoded)[Kth(GoodIndices(decoded), k)])
               IN  hourly_forecast_data[k].time = [day |-> t.day, hour |-> t.hour]
        /\ Ascending(hourly_forecast_data) =>
               /\ \A n, m \in 1..Len(forecast_data) :
                      n < m => /\ forecast_data[n].time.day # forecast_data[m].time.day
                               /\ FirstOf(hourly_forecast_data, forecast_data[n].time.day)
                                  < FirstOf(hourly_forecast_data, forecast_data[m].time.day)
               /\ {forecast_data[n].time.day : n \in 1..Len(forecast_data)}
                      = {hourly_forecast_data[k].time.day :
                             k \in 1..Len(hourly_forecast_data)}
               /\ \A n \in 1..Len(forecast_data) :
                      LET date == forecast_data[n].time.day
                      IN  /\ forecast_data[n].time =
                                 hourly_forecast_data[
                                     FirstOf(hourly_forecast_data, date)].time
                          /\ <<forecast_data[n]>> =
                                 _create_daily_forecast(
                                     DayHours(hourly_forecast_data, date))

(* One hour of the first day and two of the second give two daily records  *)
C23_Witness ==
    /\ probe.op = "decode" /\ probe.done
    /\ Len(hourly_forecast_data) = 3
    /\ hourly_forecast_data[1].time = [day |-> 1, hour |-> 23]
    /\ hourly_forecast_data[2].time = [day |-> 2, hour |-> 0]
    /\ hourly_forecast_data[3].time = [day |-> 2, hour |-> 1]
    /\ Len(forecast_data) = 2
    /\ forecast_data[2].time = [day |-> 2, hour |-> 0]
    /\ forecast_data[2].wind_speed = Num(700)

(* The raw value of the parameter at the axis index of hourly record k *)
RawOf(parameter, k) ==
    LET i == Kth(GoodIndices(decoded), k)
        param_data == decoded.ranges[parameter]
    IN  IF param_data.has_values /\ i <= Len(param_data.values)
        THEN param_data.values[i] ELSE None

(* C24: every decoded record has the weather code that the rules give for  *)
(* the precipitation and cloud cover the record itself stores, which are   *)
(* the normalized ones; so with no precipitation a raw cloud cover of more *)
(* than 0.8 and at most 1 is cloudy, and one of more than 0.3 and at most  *)
(* 0.8 is partlycloudy.                                                    *)
C24_CodeFromNormalized ==
    (probe.op = "decode" /\ probe.done /\ probe.wrote # {}) =>
        \A k \in 1..Len(hourly_forecast_data) :
            LET rec == hourly_forecast_data[k]
                raw_cloud == RawOf("fraction-of-cloud-cover", k)
                raw_precip == RawOf("total-precipitation", k)
            IN  /\ Category(rec.weather_code) =
                       IF rec.precipitation.k = "num" /\ rec.precipitation.v > 10
                       THEN "rainy"
                       ELSE IF rec.cloud_cover.k = "num" /\ rec.cloud_cover.v > 8000
                       THEN "cloudy"
                       ELSE IF rec.cloud_cover.k = "num" /\ rec.cloud_cover.v > 3000
                       THEN "partlycloudy"
                       ELSE "clear"
                /\ (raw_cloud.k = "num" /\ raw_cloud.v <= 100) =>
                       rec.cloud_cover = Num(raw_cloud.v * 100)
                /\ (raw_cloud.k = "num" /\ raw_precip \in {None, Num(0)}) =>
                       /\ (raw_cloud.v > 80 /\ raw_cloud.v <= 100) =>
                              Category(rec.weather_code) = "cloudy"
                       /\ (raw_cloud.v > 30 /\ raw_cloud.v <= 80) =>
                              Category(rec.weather_code) = "partlycloudy"

(* A raw cloud cover of 0.81 without precipitation is stored as 81 percent *)
(* and coded cloudy                                                        *)
C24_Witness ==
    /\ probe.op = "decode" /\ probe.done
    /\ Len(hourly_forecast_data) = 1
    /\ RawOf("fraction-of-cloud-cover", 1) = Num(81)
    /\ RawOf("total-precipitation", 1) = Num(0)
    /\ hourly_forecast_data[1].cloud_cover = Num(8100)
    /\ hourly_forecast_data[1].weather_code = 2

(* C25: after a decode that stores a non-empty hourly sequence,            *)
(* current_data is not empty and is the first record of                    *)
(* hourly_forecast_data, also when index 0 of the time axis was skipped.   *)
C25_CurrentIsFirstHourly ==
    (probe.op = "decode" /\ probe.done /\ probe.wrote # {}
        /\ hourly_forecast_data # <<>>) =>
        /\ current_data # EmptyDict
        /\ current_data = hourly_forecast_data[1]

(* C26: also when update() calls overlap, any two requests are sent at     *)
(* least _rate_limit_delay apart.                                          *)
C26_OverlapSpacing ==
    \A m, n \in 1..Len(requests) :
        m < n => requests[n].time - requests[m].time >= _rate_limit_delay

(* C27: in every state, from construction on and whatever the update()    *)
(* calls did (returned, raised, were cancelled, decoded a malformed        *)
(* payload), forecast_data is the daily aggregation of the                 *)
(* hourly_forecast_data of that state.                                     *)
C27_DailyOfCurrentHourly ==
    forecast_data = _create_daily_forecast(hourly_forecast_data)

(* The second update() has replaced a non-empty snapshot by another one *)
C27_Witness ==
    /\ result[1] = "returned"
    /\ derived["forecast_data"] = 2
    /\ before[1].forecast_data # <<>>
    /\ forecast_data # <<>>
    /\ forecast_data # before[1].forecast_data
    /\ hourly_forecast_data # before[1].hourly_forecast_data

(* The conditions of the host platform that stand for an estimated code *)
ConditionsFor(code) ==
    CASE Category(code) = "rainy" -> {"rainy"}
      [] Category(code) = "cloudy" -> {"cloudy"}
      [] Category(code) = "partlycloudy" -> {"partlycloudy"}
      [] Category(code) = "clear" -> {"sunny", "clear-night"}

(* C28: for the current record and every hourly and daily record of the    *)
(* snapshot, the condition the entity reports is the one that stands for   *)
(* the record's weather code, and is never "unknown".                      *)
C28_ConditionOfCode ==
    (probe.op = "decode" /\ probe.done /\ probe.wrote # {}) =>
        /\ current_data # EmptyDict =>
               /\ condition \in ConditionsFor(current_data.weather_code)
               /\ condition # "unknown"
        /\ \A n \in 1..Len(hourly_forecast_data) :
               /\ async_forecast_hourly[n]
                      \in ConditionsFor(hourly_forecast_data[n].weather_code)
               /\ async_forecast_hourly[n] # "unknown"
        /\ \A n \in 1..Len(forecast_data) :
               /\ async_forecast_daily[n]
                      \in ConditionsFor(forecast_data[n].weather_code.v)
               /\ async_forecast_daily[n] # "unknown"

====
